---- MODULE Spec2Model ----
(***************************************************************************)
(* Connection listener of libevent (listener.c): the readiness backend     *)
(* (evconnlistener_event), its constructors, and the completion backend    *)
(* (evconnlistener_iocp, WIN32).                                           *)
(*                                                                         *)
(* Four specifications share the variables:                                *)
(*   SpecNew   one call of evconnlistener_new / evconnlistener_new_bind,   *)
(*             with every input and every failing step;                    *)
(*   Spec      the life of a readiness-backend handle after construction:  *)
(*             connections arrive, the reactor dispatches                  *)
(*             listener_read_cb, the application enables, disables, frees; *)
(*   SpecCbFree  Spec, with a callback that may free the listener;         *)
(*   SpecIocp  evconnlistener_new_async and the accept slot's completions. *)
(***************************************************************************)
EXTENDS Integers, Sequences, FiniteSets

(***************************************************************************)
(* Bounds of the model.                                                    *)
(***************************************************************************)
\* connections that arrive on the listening socket
MaxConn == 3
\* accept() calls that fail with an error other than "nothing pending"
MaxAcceptErr == 1
\* event_add / event_del calls that fail after construction
MaxRegFail == 1

(***************************************************************************)
(* Program constants.                                                      *)
(***************************************************************************)
\* listen(fd, 128) for a negative backlog
DefaultBacklog == 128
\* the descriptor number of the listening socket (any valid descriptor)
ListenFd == 3

LEV_OPT_LEAVE_SOCKETS_BLOCKING == "LEAVE_SOCKETS_BLOCKING"
LEV_OPT_CLOSE_ON_FREE == "CLOSE_ON_FREE"
LEV_OPT_CLOSE_ON_EXEC == "CLOSE_ON_EXEC"
LEV_OPT_REUSEABLE == "REUSEABLE"

AllFlags == {LEV_OPT_LEAVE_SOCKETS_BLOCKING, LEV_OPT_CLOSE_ON_FREE,
             LEV_OPT_CLOSE_ON_EXEC, LEV_OPT_REUSEABLE}

\* the flags that the code reads after construction
LifeFlags == {LEV_OPT_LEAVE_SOCKETS_BLOCKING, LEV_OPT_CLOSE_ON_FREE}

\* backlog arguments: two negative values, zero, two positive values
Backlogs == {-5, -1, 0, 1, 50}

\* the step of a constructor that fails ("none": every step succeeds)
FailPoints == {"none", "socket", "nonblocking", "cloexec", "bind", "listen",
               "calloc", "event_add"}

VARIABLES
    \* ---- the readiness backend and its listening socket
    lev,        \* the handle's memory: "none", "live", "freed"
    flags,      \* lev->flags
    reg,        \* the event lev_e->listener is registered in the reactor
    sock,       \* the listening socket: [state, ops, listen]
    ret,        \* what the constructor returned: "none", "NULL", "handle"
    call,       \* the constructor call: [fn, flags, backlog, sa, fail]
    pending,    \* the kernel backlog: connections not yet accepted, in order
    nconn,      \* connections that have arrived so far
    pc,         \* listener_read_cb: "idle" or "accept" (about to call accept)
    run,        \* the current or the last run of listener_read_cb
    delivered,  \* the callback's invocations, in order
    warns,      \* calls of event_sock_warn
    fails,      \* [reg, acc]: failures injected so far
    hist,       \* the last evconnlistener_enable / _disable call
    \* ---- the completion backend
    io          \* see SpecIocp

rvars == <<lev, flags, reg, sock, ret, call, pending, nconn, pc, run,
           delivered, warns, fails, hist>>
vars == <<rvars, io>>

(***************************************************************************)
(* The reactor's registration interface (event.c, not part of listener.c). *)
(* r is whether the event is registered; out the outcome the reactor       *)
(* reports.  Adding a registered event and deleting an unregistered one    *)
(* are no-ops that succeed.  A failing event_add leaves the event          *)
(* unregistered; a failing event_del is left open: the event may or may    *)
(* not still be registered.                                                *)
(***************************************************************************)
AddOuts == {"ok", "fail"}
DelOuts == {"ok", "fail", "fail_removed"}

event_add(r, out) ==
    IF r THEN [reg |-> TRUE, ret |-> 0]
    ELSE IF out = "ok" THEN [reg |-> TRUE, ret |-> 0]
    ELSE [reg |-> FALSE, ret |-> -1]

event_del(r, out) ==
    IF ~r THEN [reg |-> FALSE, ret |-> 0]
    ELSE IF out = "ok" THEN [reg |-> FALSE, ret |-> 0]
    ELSE IF out = "fail_removed" THEN [reg |-> FALSE, ret |-> -1]
    ELSE [reg |-> TRUE, ret |-> -1]

(***************************************************************************)
(* enable / disable of the readiness backend.                              *)
(***************************************************************************)
event_listener_enable(r, out) == event_add(r, out)

\* a slip: disable registers the event instead of removing it
event_listener_disable_adds(r, out) == event_add(r, IF out = "ok" THEN "ok" ELSE "fail")

event_listener_disable(r, out) == event_del(r, out)

\* lev->ops->enable(lev), lev->ops->disable(lev) with evconnlistener_event_ops
evconnlistener_enable(r, out) == event_listener_enable(r, out)

evconnlistener_disable(r, out) == event_listener_disable(r, out)

(***************************************************************************)
(* The listening socket.  ops is the sequence of operations applied to it. *)
(***************************************************************************)
NoSock == [state |-> "none", ops |-> <<>>, listen |-> 0]

SockOp(s, op) == [s EXCEPT !.ops = Append(@, op)]

EVUTIL_CLOSESOCKET(s) == [SockOp(s, "close") EXCEPT !.state = "closed"]

listen(s, n) == [SockOp(s, "listen") EXCEPT !.listen = n]

\* what a constructor leaves behind
Built(r, l, fl, rg, s) ==
    [ret |-> r, lev |-> l, flags |-> fl, reg |-> rg, sock |-> s]

(***************************************************************************)
(* evconnlistener_new: fd is the socket the caller passes.                 *)
(***************************************************************************)
\* a slip: a negative backlog is passed on to listen as it is
evconnlistener_new_backlog_as_is(fl, backlog, fd, fail) ==
    LET n == backlog
        listened == IF n # 0 THEN listen(fd, n) ELSE fd
    IN  IF n # 0 /\ fail = "listen"
        THEN Built("NULL", "none", {}, FALSE, fd)
        ELSE IF fail = "calloc"
        THEN Built("NULL", "none", {}, FALSE, listened)
        ELSE Built("handle", "live", fl,
                   evconnlistener_enable(FALSE,
                       IF fail = "event_add" THEN "fail" ELSE "ok").reg,
                   SockOp(SockOp(listened, "event_assign"), "event_add"))

evconnlistener_new(fl, backlog, fd, fail) ==
    LET n == IF backlog > 0 THEN backlog
             ELSE IF backlog < 0 THEN DefaultBacklog ELSE 0
        listened == IF n # 0 THEN listen(fd, n) ELSE fd
    IN  IF n # 0 /\ fail = "listen"
        THEN Built("NULL", "none", {}, FALSE, fd)
        ELSE IF fail = "calloc"
        THEN Built("NULL", "none", {}, FALSE, listened)
        ELSE \* the result of evconnlistener_enable is not looked at
             Built("handle", "live", fl,
                   evconnlistener_enable(FALSE,
                       IF fail = "event_add" THEN "fail" ELSE "ok").reg,
                   SockOp(SockOp(listened, "event_assign"), "event_add"))

(***************************************************************************)
(* evconnlistener_new_bind (the non-WIN32 build): sa is whether an address *)
(* is given.                                                               *)
(***************************************************************************)
\* a slip: the address-reuse option is set after bind
evconnlistener_new_bind_reuse_after_bind(fl, backlog, sa, fail) ==
    LET fd0 == [state |-> "open", ops |-> <<"socket">>, listen |-> 0]
        fd1 == SockOp(fd0, "nonblocking")
        fd2 == IF LEV_OPT_CLOSE_ON_EXEC \in fl THEN SockOp(fd1, "cloexec") ELSE fd1
        fd3 == SockOp(fd2, "keepalive")
        fd4 == IF sa THEN SockOp(fd3, "bind") ELSE fd3
        fd5 == IF LEV_OPT_REUSEABLE \in fl THEN SockOp(fd4, "reuseable") ELSE fd4
    IN  IF backlog = 0 THEN Built("NULL", "none", {}, FALSE, NoSock)
        ELSE IF fail = "socket" THEN Built("NULL", "none", {}, FALSE, NoSock)
        ELSE IF fail = "nonblocking" THEN Built("NULL", "none", {}, FALSE, fd0)
        ELSE IF LEV_OPT_CLOSE_ON_EXEC \in fl /\ fail = "cloexec"
        THEN Built("NULL", "none", {}, FALSE, EVUTIL_CLOSESOCKET(fd1))
        ELSE IF sa /\ fail = "bind"
        THEN Built("NULL", "none", {}, FALSE, EVUTIL_CLOSESOCKET(fd3))
        ELSE evconnlistener_new(fl, backlog, fd5, fail)

evconnlistener_new_bind(fl, backlog, sa, fail) ==
    LET fd0 == [state |-> "open", ops |-> <<"socket">>, listen |-> 0]
        fd1 == SockOp(fd0, "nonblocking")
        fd2 == IF LEV_OPT_CLOSE_ON_EXEC \in fl THEN SockOp(fd1, "cloexec") ELSE fd1
        fd3 == SockOp(fd2, "keepalive")
        fd4 == IF LEV_OPT_REUSEABLE \in fl THEN SockOp(fd3, "reuseable") ELSE fd3
        fd5 == IF sa THEN SockOp(fd4, "bind") ELSE fd4
    IN  IF backlog = 0 THEN Built("NULL", "none", {}, FALSE, NoSock)
        ELSE IF fail = "socket" THEN Built("NULL", "none", {}, FALSE, NoSock)
        ELSE IF fail = "nonblocking" THEN Built("NULL", "none", {}, FALSE, fd0)
        ELSE IF LEV_OPT_CLOSE_ON_EXEC \in fl /\ fail = "cloexec"
        THEN Built("NULL", "none", {}, FALSE, EVUTIL_CLOSESOCKET(fd1))
        ELSE IF sa /\ fail = "bind"
        THEN Built("NULL", "none", {}, FALSE, EVUTIL_CLOSESOCKET(fd4))
        ELSE evconnlistener_new(fl, backlog, fd5, fail)

(***************************************************************************)
(* State that a specification does not use.                                *)
(***************************************************************************)
\* run: n connections pending at dispatch (queue), base callbacks made before
\* it, arrived during it, err and left when it ended; cbDisabled / touched:
\* the callback disabled the listener / called enable or disable during the
\* run; afterDisable: callbacks made while cbDisabled; uaf: see SpecCbFree
NoRun == [active |-> FALSE, n |-> 0, base |-> 0, arrived |-> 0, err |-> "none",
          left |-> 0, cbDisabled |-> FALSE, afterDisable |-> 0,
          queue |-> <<>>, touched |-> FALSE, uaf |-> <<>>]
NoHist == [last |-> "none", ret |-> 0, pre |-> FALSE, tick |-> 0, quiet |-> FALSE]
NoCall == [fn |-> "none", flags |-> {}, backlog |-> 0, sa |-> FALSE, fail |-> "none"]
NoIo == [phase |-> "unused"]

IdleLife ==
    /\ pending = <<>>
    /\ nconn = 0
    /\ pc = "idle"
    /\ run = NoRun
    /\ delivered = <<>>
    /\ warns = 0
    /\ fails = [reg |-> 0, acc |-> 0]
    /\ hist = NoHist

(***************************************************************************)
(* SpecNew: one constructor call.                                          *)
(***************************************************************************)
InitNew ==
    /\ lev = "none"
    /\ flags = {}
    /\ reg = FALSE
    /\ sock = NoSock
    /\ ret = "none"
    /\ call = NoCall
    /\ IdleLife
    /\ io = NoIo

SetBuilt(b) ==
    /\ ret' = b.ret
    /\ lev' = b.lev
    /\ flags' = b.flags
    /\ reg' = b.reg
    /\ sock' = b.sock

\* the caller made, and possibly bound, the socket it passes
CallerSock == [state |-> "open", ops |-> <<"socket", "bind">>, listen |-> 0]

CallNew ==
    /\ ret = "none"
    /\ \E fl \in SUBSET AllFlags, b \in Backlogs,
          f \in {"none", "listen", "calloc", "event_add"} :
        /\ call' = [fn |-> "new", flags |-> fl, backlog |-> b, sa |-> FALSE,
                    fail |-> f]
        /\ SetBuilt(evconnlistener_new(fl, b, CallerSock, f))
    /\ UNCHANGED <<pending, nconn, pc, run, delivered, warns, fails, hist, io>>

CallNewBind ==
    /\ ret = "none"
    /\ \E fl \in SUBSET AllFlags, b \in Backlogs, sa \in BOOLEAN, f \in FailPoints :
        /\ call' = [fn |-> "new_bind", flags |-> fl, backlog |-> b, sa |-> sa,
                    fail |-> f]
        /\ SetBuilt(evconnlistener_new_bind(fl, b, sa, f))
    /\ UNCHANGED <<pending, nconn, pc, run, delivered, warns, fails, hist, io>>

NextNew == CallNew \/ CallNewBind

SpecNew == InitNew /\ [][NextNew]_vars

(***************************************************************************)
(* Spec: the life of a readiness-backend handle.                           *)
(*                                                                         *)
(* The kernel queues arriving connections at any time, also while          *)
(* listener_read_cb runs.  accept() takes the oldest one and returns a     *)
(* descriptor that is not in use; nothing in the model closes accepted     *)
(* descriptors, so the k-th accepted connection gets descriptor            *)
(* ListenFd + k.                                                           *)
(***************************************************************************)
\* accept(fd, ...) on backlog q: the connection taken and what stays queued
accept(q) == [conn |-> Head(q), new_fd |-> ListenFd + Head(q), rest |-> Tail(q)]

\* errno values of a failing accept
AcceptErrs == {"EAGAIN", "EINTR", "EMFILE"}

\* util-internal.h
EVUTIL_ERR_ACCEPT_RETRIABLE(e) == e \in {"EINTR", "EAGAIN", "ECONNABORTED"}

\* a slip: the callback is invoked only inside the if that sets non-blocking mode
listener_read_cb_deliver_in_if(dl, fl, conn, new_fd) ==
    IF LEV_OPT_LEAVE_SOCKETS_BLOCKING \notin fl
    THEN Append(dl, [conn |-> conn, fd |-> new_fd, nonblock |-> TRUE])
    ELSE dl

\* a slip: every accepted descriptor is made non-blocking
listener_read_cb_deliver_always_nonblock(dl, fl, conn, new_fd) ==
    Append(dl, [conn |-> conn, fd |-> new_fd, nonblock |-> TRUE])

\* a slip: the callback is invoked twice for an accepted connection
listener_read_cb_deliver_twice(dl, fl, conn, new_fd) ==
    LET c == [conn |-> conn, fd |-> new_fd,
              nonblock |-> LEV_OPT_LEAVE_SOCKETS_BLOCKING \notin fl]
    IN  Append(Append(dl, c), c)

\* the loop body after a successful accept: non-blocking mode unless
\* LEAVE_SOCKETS_BLOCKING, then lev->cb(lev, new_fd, ...)
listener_read_cb_deliver(dl, fl, conn, new_fd) ==
    Append(dl, [conn |-> conn, fd |-> new_fd,
                nonblock |-> LEV_OPT_LEAVE_SOCKETS_BLOCKING \notin fl])

\* what the user's callback does with the listener
CbActs == {"none", "disable", "enable"}

\* the outcomes the reactor may still report
RegOuts(S) == IF fails.reg < MaxRegFail THEN S ELSE {"ok"}

\* hist after a call of evconnlistener_enable / evconnlistener_disable
Called(h, what, pre, r) ==
    [last |-> what, ret |-> r.ret, pre |-> pre, tick |-> 1 - h.tick,
     quiet |-> IF what = "enable" THEN FALSE
               ELSE IF r.ret = 0 THEN TRUE ELSE h.quiet]

CountFail(r) ==
    [fails EXCEPT !.reg = IF r.ret = 0 THEN @ ELSE @ + 1]

Init ==
    /\ \E fl \in SUBSET LifeFlags, f \in {"none", "event_add"} :
        LET b == evconnlistener_new(fl, -1, CallerSock, f)
        IN  /\ call = [fn |-> "new", flags |-> fl, backlog |-> -1, sa |-> FALSE,
                       fail |-> f]
            /\ ret = b.ret
            /\ lev = b.lev
            /\ flags = b.flags
            /\ reg = b.reg
            /\ sock = b.sock
    /\ IdleLife
    /\ io = NoIo

\* a client completes its handshake
Connect ==
    /\ sock.state = "open"
    /\ sock.listen > 0
    /\ nconn < MaxConn
    /\ nconn' = nconn + 1
    /\ pending' = Append(pending, nconn + 1)
    /\ run' = IF run.active THEN [run EXCEPT !.arrived = @ + 1] ELSE run
    /\ UNCHANGED <<lev, flags, reg, sock, ret, call, pc, delivered, warns,
                   fails, hist, io>>

\* the reactor calls listener_read_cb: the event is registered
Dispatch ==
    /\ pc = "idle"
    /\ lev = "live"
    /\ reg
    /\ pc' = "accept"
    /\ run' = [active |-> TRUE, n |-> Len(pending), base |-> Len(delivered),
               arrived |-> 0, err |-> "none", left |-> 0,
               cbDisabled |-> FALSE, afterDisable |-> 0,
               queue |-> pending, touched |-> FALSE, uaf |-> <<>>]
    /\ UNCHANGED <<lev, flags, reg, sock, ret, call, pending, nconn, delivered,
                   warns, fails, hist, io>>

\* one iteration of the loop of listener_read_cb: accept succeeds, the
\* callback runs (and may disable or enable the listener), the loop goes on
AcceptOk ==
    /\ pc = "accept"
    /\ lev = "live"
    /\ pending # <<>>
    /\ LET a == accept(pending)
       IN  /\ pending' = a.rest
           /\ delivered' = listener_read_cb_deliver(delivered, flags, a.conn, a.new_fd)
    /\ \E act \in CbActs :
        \E out \in RegOuts(IF act = "disable" THEN DelOuts
                           ELSE IF act = "enable" THEN AddOuts ELSE {"ok"}) :
          LET r == IF act = "disable" THEN evconnlistener_disable(reg, out)
                   ELSE IF act = "enable" THEN evconnlistener_enable(reg, out)
                   ELSE [reg |-> reg, ret |-> 0]
          IN  /\ reg' = r.reg
              /\ hist' = IF act = "none" THEN hist ELSE Called(hist, act, reg, r)
              /\ fails' = CountFail(r)
              /\ run' = [run EXCEPT
                    !.afterDisable = IF run.cbDisabled THEN @ + 1 ELSE @,
                    !.cbDisabled = IF act = "disable" /\ r.ret = 0 THEN TRUE
                                   ELSE IF act = "enable" THEN FALSE ELSE @,
                    !.touched = @ \/ act # "none"]
    /\ UNCHANGED <<lev, flags, sock, ret, call, nconn, pc, warns, io>>

\* a slip: the error is logged whatever it is
listener_read_cb_after_loop_warns_always(w, err) == w + 1

\* listener_read_cb after the loop: a retriable error returns silently,
\* another one is reported with event_sock_warn; w counts the warnings
listener_read_cb_after_loop(w, err) ==
    IF EVUTIL_ERR_ACCEPT_RETRIABLE(err) THEN w ELSE w + 1

\* accept fails: the loop breaks, the error is looked at, the run ends
AcceptFail ==
    /\ pc = "accept"
    /\ lev = "live"
    /\ \E e \in AcceptErrs :
        /\ IF pending = <<>> THEN e = "EAGAIN"
           ELSE e # "EAGAIN" /\ fails.acc < MaxAcceptErr
        /\ run' = [run EXCEPT !.active = FALSE, !.err = e, !.left = Len(pending),
                              !.touched = FALSE]
        /\ warns' = listener_read_cb_after_loop(warns, e)
        /\ fails' = [fails EXCEPT !.acc = IF e = "EAGAIN" THEN @ ELSE @ + 1]
    /\ pc' = "idle"
    /\ UNCHANGED <<lev, flags, reg, sock, ret, call, pending, nconn, delivered,
                   hist, io>>

\* the application calls evconnlistener_enable outside the callback
Enable ==
    /\ pc = "idle"
    /\ lev = "live"
    /\ \E out \in RegOuts(AddOuts) :
        LET r == evconnlistener_enable(reg, out)
        IN  /\ reg' = r.reg
            /\ hist' = Called(hist, "enable", reg, r)
            /\ fails' = CountFail(r)
    /\ UNCHANGED <<lev, flags, sock, ret, call, pending, nconn, pc, run,
                   delivered, warns, io>>

\* the application calls evconnlistener_disable outside the callback
Disable ==
    /\ pc = "idle"
    /\ lev = "live"
    /\ \E out \in RegOuts(DelOuts) :
        LET r == evconnlistener_disable(reg, out)
        IN  /\ reg' = r.reg
            /\ hist' = Called(hist, "disable", reg, r)
            /\ fails' = CountFail(r)
    /\ UNCHANGED <<lev, flags, sock, ret, call, pending, nconn, pc, run,
                   delivered, warns, io>>

\* a slip: the descriptor is closed whatever the flags say
event_listener_destroy_always_closes(r, fl, s, out) ==
    [reg |-> event_del(r, out).reg, sock |-> EVUTIL_CLOSESOCKET(s)]

\* event_listener_destroy: event_del, then close with CLOSE_ON_FREE
event_listener_destroy(r, fl, s, out) ==
    [reg |-> event_del(r, out).reg,
     sock |-> IF LEV_OPT_CLOSE_ON_FREE \in fl THEN EVUTIL_CLOSESOCKET(s) ELSE s]

\* the application calls evconnlistener_free outside the callback
Free ==
    /\ pc = "idle"
    /\ lev = "live"
    /\ \E out \in RegOuts(DelOuts) :
        LET d == event_listener_destroy(reg, flags, sock, out)
        IN  /\ reg' = d.reg
            /\ sock' = d.sock
            /\ fails' = CountFail(event_del(reg, out))
    /\ lev' = "freed"
    /\ UNCHANGED <<flags, ret, call, pending, nconn, pc, run, delivered, warns,
                   hist, io>>

Next ==
    \/ Connect
    \/ Dispatch
    \/ AcceptOk
    \/ AcceptFail
    \/ Enable
    \/ Disable
    \/ Free

Spec == Init /\ [][Next]_vars

(***************************************************************************)
(* SpecCbFree: Spec, and the user's callback may call evconnlistener_free  *)
(* on the listener it is called for.  listener_read_cb then goes on with   *)
(* its loop: accept(fd, ...) uses the descriptor number it was called      *)
(* with; after a successful accept it reads lev->flags and calls lev->cb   *)
(* from released memory, which is undefined: the run either goes on as if  *)
(* the memory still held some flags and the callback, or the process       *)
(* crashes.  run.uaf lists what the run did after the handle was freed.    *)
(***************************************************************************)
\* one iteration of the loop in which the callback frees the listener
CbFree ==
    /\ pc = "accept"
    /\ lev = "live"
    /\ pending # <<>>
    /\ LET a == accept(pending)
       IN  /\ pending' = a.rest
           /\ delivered' = listener_read_cb_deliver(delivered, flags, a.conn, a.new_fd)
    /\ \E out \in RegOuts(DelOuts) :
        LET d == event_listener_destroy(reg, flags, sock, out)
        IN  /\ reg' = d.reg
            /\ sock' = d.sock
            /\ fails' = CountFail(event_del(reg, out))
    /\ lev' = "freed"
    /\ run' = [run EXCEPT !.afterDisable = IF run.cbDisabled THEN @ + 1 ELSE @]
    /\ UNCHANGED <<flags, ret, call, nconn, pc, warns, hist, io>>

\* the next accept after the free fails: EBADF on the descriptor free
\* closed, EAGAIN on an open one with nothing queued
FreedAcceptFail ==
    /\ pc = "accept"
    /\ lev = "freed"
    /\ sock.state = "open" => pending = <<>>
    /\ LET e == IF sock.state = "closed" THEN "EBADF" ELSE "EAGAIN"
       IN  /\ run' = [run EXCEPT !.active = FALSE, !.err = e,
                                 !.left = Len(pending),
                                 !.uaf = Append(@, IF sock.state = "closed"
                                                   THEN "accept_closed_fd"
                                                   ELSE "accept")]
           /\ warns' = listener_read_cb_after_loop(warns, e)
    /\ pc' = "idle"
    /\ UNCHANGED <<lev, flags, reg, sock, ret, call, pending, nconn, delivered,
                   fails, hist, io>>

\* the next accept after the free succeeds, and the released memory reads
\* as a handle with flags fl and the callback
FreedAcceptOk ==
    /\ pc = "accept"
    /\ lev = "freed"
    /\ sock.state = "open"
    /\ pending # <<>>
    /\ \E fl \in SUBSET LifeFlags :
        LET a == accept(pending)
        IN  /\ pending' = a.rest
            /\ delivered' = listener_read_cb_deliver(delivered, fl, a.conn, a.new_fd)
    /\ run' = [run EXCEPT !.afterDisable = IF run.cbDisabled THEN @ + 1 ELSE @,
                          !.uaf = @ \o <<"accept", "read_freed_lev", "callback">>]
    /\ UNCHANGED <<lev, flags, reg, sock, ret, call, nconn, pc, warns, fails,
                   hist, io>>

\* the next accept after the free succeeds, and reading the released
\* memory or calling through it crashes the process
FreedAcceptCrash ==
    /\ pc = "accept"
    /\ lev = "freed"
    /\ sock.state = "open"
    /\ pending # <<>>
    /\ pending' = accept(pending).rest
    /\ run' = [run EXCEPT !.uaf = @ \o <<"accept", "read_freed_lev">>]
    /\ pc' = "crashed"
    /\ UNCHANGED <<lev, flags, reg, sock, ret, call, nconn, delivered, warns,
                   fails, hist, io>>

NextCbFree ==
    \/ Next
    \/ CbFree
    \/ FreedAcceptFail
    \/ FreedAcceptOk
    \/ FreedAcceptCrash

SpecCbFree == Init /\ [][NextCbFree]_vars

(***************************************************************************)
(* SpecIocp: the completion backend (WIN32).                               *)
(*                                                                         *)
(* io holds the backend: the handle (lev, flags, ret), the listening       *)
(* socket (fd), the array lev->accepting (accepting), the one accepting    *)
(* socket: its memory (as), as->s (s) and whether an AcceptEx is           *)
(* outstanding on it (posted), the sockets start_accepting created         *)
(* (socks), the callback's invocations (calls), and the nesting of         *)
(* accepted_socket_cb (depth, maxDepth).                                   *)
(*                                                                         *)
(* start_accepting runs against a script of outcomes, one for each         *)
(* AcceptEx it reaches: "immediate" (AcceptEx returns TRUE), "pending",    *)
(* "error" (another error), "nosocket" (socket() fails), "noassoc"         *)
(* (event_iocp_port_associate fails).                                      *)
(***************************************************************************)
\* AcceptEx calls in a row that complete immediately
MaxChain == 2
\* accepts that complete, asynchronously or immediately
MaxComplete == 3

INVALID_SOCKET == -1

Families == {"AF_INET", "AF_INET6", "AF_UNIX"}

IocpFailPoints == {"none", "listen", "getsockname", "calloc_lev",
                   "calloc_accepting", "calloc_as"}

LastOutcomes == {"pending", "error", "nosocket", "noassoc"}

\* k times "immediate", then an outcome that ends the chain
Chain(k, last) == [i \in 1..(k + 1) |-> IF i <= k THEN "immediate" ELSE last]

Chains(maxk) == {Chain(k, l) : k \in 0..maxk, l \in LastOutcomes}

\* a slip: the handler delivers the connection and does not post a new accept
accepted_socket_cb_no_rearm(w, outs) ==
    [w EXCEPT !.s = INVALID_SOCKET,
              !.posted = FALSE,
              !.completions = @ + 1,
              !.maxDepth = IF w.depth + 1 > @ THEN w.depth + 1 ELSE @,
              !.calls = Append(@, [fd |-> INVALID_SOCKET, conn |-> w.s])]

RECURSIVE accepted_socket_cb(_, _)

\* start_accepting(as): [w, ret]
start_accepting(w, outs) ==
    LET o == Head(outs)
        s == Len(w.socks) + 1
        made == [w EXCEPT !.socks = Append(@,
                    [state |-> "fresh",
                     nonblock |-> LEV_OPT_LEAVE_SOCKETS_BLOCKING \notin w.flags])]
        set == [made EXCEPT !.s = s]
    IN  IF o = "nosocket" THEN [w |-> w, ret |-> -1]
        ELSE IF o = "noassoc" THEN [w |-> made, ret |-> -1]
        ELSE IF o = "immediate"
        THEN [w |-> accepted_socket_cb(
                        [set EXCEPT !.socks[s].state = "connected"], Tail(outs)),
              ret |-> 0]
        ELSE IF o = "pending" THEN [w |-> [set EXCEPT !.posted = TRUE], ret |-> 0]
        ELSE [w |-> set, ret |-> -1]

\* accepted_socket_cb(o, key, n): as->s is cleared, then handed to the
\* callback; the result of start_accepting is not looked at
accepted_socket_cb(w, outs) ==
    LET in == [w EXCEPT !.depth = @ + 1,
                        !.maxDepth = IF w.depth + 1 > @ THEN w.depth + 1 ELSE @,
                        !.completions = @ + 1,
                        !.posted = FALSE,
                        !.s = INVALID_SOCKET]
        called == [in EXCEPT !.calls = Append(@, [fd |-> in.s, conn |-> w.s])]
        rearmed == start_accepting(called, outs).w
    IN  [rearmed EXCEPT !.depth = @ - 1]

\* new_accepting_socket(lev, family): whether it returns a slot
new_accepting_socket(family, fail) ==
    family \in {"AF_INET", "AF_INET6"} /\ fail # "calloc_as"

\* evconnlistener_new_async
evconnlistener_new_async(w, fl, backlog, family, fail, outs) ==
    LET n == IF backlog > 0 THEN backlog
             ELSE IF backlog < 0 THEN DefaultBacklog ELSE 0
        listening == [w EXCEPT !.fd.listen = IF n # 0 THEN n ELSE @]
        alloc == [listening EXCEPT !.lev = "live", !.flags = fl]
        slotted == [alloc EXCEPT !.accepting = "alloc", !.as = "alloc"]
        started == start_accepting(slotted, outs)
    IN  IF n # 0 /\ fail = "listen" THEN [w EXCEPT !.ret = "NULL"]
        ELSE IF fail = "getsockname"
        THEN [listening EXCEPT !.ret = "NULL", !.warns = @ + 1]
        ELSE IF fail = "calloc_lev"
        THEN [listening EXCEPT !.ret = "NULL", !.warns = @ + 1]
        ELSE IF fail = "calloc_accepting"
        THEN [listening EXCEPT !.ret = "NULL", !.warns = @ + 1,
                               !.lev = "freed", !.fd.state = "closed"]
        ELSE IF ~new_accepting_socket(family, fail)
        THEN [listening EXCEPT !.ret = "NULL", !.warns = @ + 1,
                               !.lev = "freed", !.accepting = "freed",
                               !.fd.state = "closed"]
        ELSE IF started.ret = 0
        THEN \* if (!start_accepting(...)): taken when it returned 0
             [started.w EXCEPT !.ret = "NULL", !.warns = @ + 1,
                               !.starts = <<started.ret>>]
        ELSE [started.w EXCEPT !.ret = "handle", !.starts = <<started.ret>>]

\* iocp_listener_enable, iocp_listener_disable: return 0
iocp_listener_enable(w) == [w |-> w, ret |-> 0]

iocp_listener_disable(w) == [w |-> w, ret |-> 0]

\* iocp_listener_destroy: empty
iocp_listener_destroy(w) == w

\* evconnlistener_free with evconnlistener_iocp_ops
evconnlistener_free_iocp(w) == [iocp_listener_destroy(w) EXCEPT !.lev = "freed"]

InitIocp ==
    /\ lev = "none"
    /\ flags = {}
    /\ reg = FALSE
    /\ sock = NoSock
    /\ ret = "none"
    /\ call = NoCall
    /\ IdleLife
    /\ io = [phase |-> "start", ret |-> "none", lev |-> "none", flags |-> {},
             fd |-> [state |-> "open", listen |-> 0],
             accepting |-> "none", as |-> "none", s |-> INVALID_SOCKET,
             posted |-> FALSE, socks |-> <<>>, calls |-> <<>>,
             depth |-> 0, maxDepth |-> 0, completions |-> 0, warns |-> 0,
             starts |-> <<>>, outs |-> <<>>, family |-> "none",
             fail |-> "none", last |-> "none", quiet |-> FALSE]

\* the application calls evconnlistener_new_async on its socket
CallNewAsync ==
    /\ io.phase = "start"
    /\ \E fl \in SUBSET LifeFlags, b \in Backlogs, fam \in Families,
          f \in IocpFailPoints, outs \in Chains(MaxChain) :
        io' = [evconnlistener_new_async(io, fl, b, fam, f, outs) EXCEPT
                  !.phase = "built", !.outs = outs, !.family = fam, !.fail = f]
    /\ UNCHANGED rvars

\* the completion port reports that the posted AcceptEx has completed
Complete ==
    /\ io.phase = "built"
    /\ io.posted
    /\ io.lev = "live"
    /\ io.completions < MaxComplete
    /\ \E outs \in Chains(IF MaxComplete - io.completions - 1 < MaxChain
                          THEN MaxComplete - io.completions - 1 ELSE MaxChain) :
        io' = [accepted_socket_cb(
                   [io EXCEPT !.socks[io.s].state = "connected"], outs)
               EXCEPT !.outs = outs]
    /\ UNCHANGED rvars

\* the application calls evconnlistener_enable on the handle
IocpEnable ==
    /\ io.ret = "handle"
    /\ io.lev = "live"
    /\ io' = [iocp_listener_enable(io).w EXCEPT !.last = "enable", !.quiet = FALSE]
    /\ UNCHANGED rvars

\* the application calls evconnlistener_disable on the handle
IocpDisable ==
    /\ io.ret = "handle"
    /\ io.lev = "live"
    /\ io' = [iocp_listener_disable(io).w EXCEPT !.last = "disable", !.quiet = TRUE]
    /\ UNCHANGED rvars

\* the application calls evconnlistener_free on the handle
IocpFree ==
    /\ io.ret = "handle"
    /\ io.lev = "live"
    /\ io' = evconnlistener_free_iocp(io)
    /\ UNCHANGED rvars

NextIocp ==
    \/ CallNewAsync
    \/ Complete
    \/ IocpEnable
    \/ IocpDisable
    \/ IocpFree

SpecIocp == InitIocp /\ [][NextIocp]_vars

(***************************************************************************)
(* Claims about the constructors (SpecNew) and the readiness backend       *)
(* (Spec).                                                                 *)
(***************************************************************************)
\* callbacks invoked by the current (or the last) run of listener_read_cb
RunCalls == Len(delivered) - run.base

RunEnded == ~run.active /\ run.err # "none"

DistinctDescriptors ==
    \A i, j \in 1..Len(delivered) :
        i # j => /\ delivered[i].fd # delivered[j].fd
                 /\ delivered[i].conn # delivered[j].conn

\* C1 as stated: a run of listener_read_cb that was dispatched with N
\* connections pending has invoked the callback exactly N times, with
\* distinct descriptors, when it returns to the reactor.
C1_DrainExactlyN ==
    RunEnded => (RunCalls = run.n /\ DistinctDescriptors)

\* C1 as amended: during a run every connection that accept has returned has
\* been handed to the callback exactly once, with a distinct descriptor; the
\* run ends at the first accept that fails.  When that accept reports that
\* nothing is pending, the run has delivered the N connections pending at
\* dispatch and those that arrived during the run (exactly N when none
\* arrived); when it fails with another error the rest stays queued.
C1_DrainUntilAcceptFails ==
    /\ DistinctDescriptors
    /\ run.active => RunCalls + Len(pending) = run.n + run.arrived
    /\ RunEnded =>
        /\ RunCalls + run.left = run.n + run.arrived
        /\ run.err = "EAGAIN" => RunCalls = run.n + run.arrived
        /\ (run.err = "EAGAIN" /\ run.arrived = 0) => RunCalls = run.n

\* a run dispatched with two or more connections pending has delivered them all
C1_Witness ==
    /\ RunEnded
    /\ run.err = "EAGAIN"
    /\ run.n >= 2
    /\ run.arrived = 0
    /\ RunCalls = run.n

\* C2: while the listener is disabled (evconnlistener_disable returned
\* success and evconnlistener_enable has not been called since), no callback
\* is invoked and no queued connection leaves the backlog.
C2_DisabledMeansNoCallback ==
    [][hist.quiet => (delivered' = delivered /\ Len(pending') >= Len(pending))]_vars

\* C3: once the callback has disabled the listener during a run of
\* listener_read_cb, that run invokes the callback no more.
C3_CallbackDisableStopsDrain == run.afterDisable = 0

\* C4: a handle that a constructor returns is registered in the reactor.
C4_ReturnedHandleIsRegistered == ret = "handle" => reg

\* C5: a failed evconnlistener_new_bind leaves no socket of its own open.
C5_FailedBindClosesSocket ==
    (call.fn = "new_bind" /\ ret = "NULL") => sock.state # "open"

\* C10 as stated: enable on an enabled handle and disable on a disabled one
\* succeed and change nothing, and the event is registered exactly when the
\* last call was evconnlistener_enable.
C10_RegisteredIffLastCallEnable ==
    (lev = "live" /\ hist.last # "none") =>
        /\ (hist.last = "enable" /\ hist.pre) => (hist.ret = 0 /\ reg)
        /\ (hist.last = "disable" /\ ~hist.pre) => (hist.ret = 0 /\ ~reg)
        /\ reg <=> hist.last = "enable"

\* C10 as amended: enable on an enabled handle and disable on a disabled one
\* return success and leave the registration as it is; no enable or disable
\* call changes the flags or the listening descriptor; after a call that
\* returns success the event is registered exactly when the call was
\* evconnlistener_enable; between calls the registration does not change.
C10_EnableDisableIdempotent ==
    [][(lev = "live" /\ lev' = "live") =>
        /\ flags' = flags
        /\ sock' = sock
        /\ hist' = hist => reg' = reg
        /\ hist' # hist =>
            /\ (hist'.last = "enable" /\ reg) => (reg' /\ hist'.ret = 0)
            /\ (hist'.last = "disable" /\ ~reg) => (~reg' /\ hist'.ret = 0)
            /\ hist'.ret = 0 => (reg' <=> hist'.last = "enable")]_vars

\* evconnlistener_enable was called on an enabled handle
C10_Witness ==
    /\ lev = "live"
    /\ hist.last = "enable"
    /\ hist.pre
    /\ hist.ret = 0
    /\ reg

(***************************************************************************)
(* Claims about the completion backend (SpecIocp).                         *)
(***************************************************************************)
\* C6: evconnlistener_new_async returns a handle exactly when
\* start_accepting posted the first accept (returned 0), and a failed call
\* has released the handle, the slot array and the slot.
C6_AsyncHandleIffAcceptPosted ==
    io.phase = "built" =>
        /\ io.ret = "handle" <=> (io.starts # <<>> /\ io.starts[1] = 0)
        /\ io.ret = "NULL" =>
               (io.lev # "live" /\ io.accepting # "alloc" /\ io.as # "alloc")

\* C7: every callback of the completion backend receives the socket on
\* which the accept completed, never INVALID_SOCKET.
C7_CallbackGetsAcceptedSocket ==
    \A i \in 1..Len(io.calls) :
        /\ io.calls[i].fd # INVALID_SOCKET
        /\ io.calls[i].fd = io.calls[i].conn

\* C8 as stated: after any number of completed accepts the slot is posted
\* again, whatever happened while it was re-armed, and each completed accept
\* reached the callback.
C8_SlotAlwaysRePosted ==
    (io.phase = "built" /\ io.completions > 0) =>
        (io.posted /\ Len(io.calls) = io.completions)

\* C8 as amended: after any number of completed accepts the handler has
\* returned, the callback has been invoked once for each completed accept,
\* and the slot is posted again, on a fresh socket, exactly when the last
\* re-arm created and associated a socket and AcceptEx reported the accept
\* pending; when socket creation, association or AcceptEx failed the slot
\* is left with no accept outstanding.
C8_RePostedWhenRearmSucceeds ==
    (io.phase = "built" /\ io.completions > 0) =>
        /\ io.depth = 0
        /\ Len(io.calls) = io.completions
        /\ io.posted <=> io.outs[Len(io.outs)] = "pending"
        /\ io.posted =>
               /\ io.s \in 1..Len(io.socks)
               /\ io.socks[io.s].state = "fresh"
               /\ \A i \in 1..Len(io.calls) : io.calls[i].conn # io.s

\* the slot is posted again after MaxComplete completed accepts
C8_Witness ==
    /\ io.phase = "built"
    /\ io.completions = MaxComplete
    /\ io.posted

\* C9: evconnlistener_free on a completion-backend handle does what it does
\* on a readiness-backend handle: it releases what the backend holds (the
\* accept slot and the slot array) and, with CLOSE_ON_FREE, closes the
\* listening descriptor.
C9_IocpDestroyReleases ==
    (io.phase = "built" /\ io.ret = "handle" /\ io.lev = "freed") =>
        /\ io.as = "freed"
        /\ io.accepting = "freed"
        /\ LEV_OPT_CLOSE_ON_FREE \in io.flags => io.fd.state = "closed"

(***************************************************************************)
(* Claims about evconnlistener_free on a readiness-backend handle (Spec).  *)
(***************************************************************************)
\* C11: evconnlistener_free removes the registration before it closes the
\* descriptor and before it releases the handle: the descriptor is not
\* closed by free, and the memory is not released, while the event is still
\* registered, and no registration remains once the handle is freed.
C11_FreeLeavesNoRegistration ==
    lev = "freed" => ~reg

\* C12: evconnlistener_free closes the listening descriptor exactly when
\* CLOSE_ON_FREE was given to the constructor; without the flag the
\* descriptor is as it was, open and listening, and stays so.
C12_CloseOnFreeIffFlag ==
    [][/\ (lev = "live" /\ lev' = "freed") =>
            IF LEV_OPT_CLOSE_ON_FREE \in call.flags
            THEN sock.state = "open" /\ sock'.state = "closed"
            ELSE sock.state = "open" /\ sock' = sock
       /\ lev = "freed" => sock' = sock]_vars

\* a handle built without CLOSE_ON_FREE has been freed with connections
\* queued on its descriptor, which is still open and listening
C12_Witness ==
    /\ lev = "freed"
    /\ LEV_OPT_CLOSE_ON_FREE \notin call.flags
    /\ sock.state = "open"
    /\ sock.listen = DefaultBacklog
    /\ pending # <<>>

C15_FifoWithinRun ==
    LET taken == run.n + run.arrived
                     - (IF run.active THEN Len(pending) ELSE run.left)
    IN  (run.active \/ RunEnded) =>
            /\ RunCalls = taken
            /\ \A i \in 1..RunCalls :
                /\ i <= run.n => delivered[run.base + i].conn = run.queue[i]
                /\ i > 1 => delivered[run.base + i].conn
                                = delivered[run.base + i - 1].conn + 1

\* a run dispatched with two connections pending delivered them and a third
\* one that arrived while it ran
C15_Witness ==
    /\ RunEnded
    /\ run.n = 2
    /\ run.arrived = 1
    /\ RunCalls = 3
    /\ delivered[run.base + 2].conn = run.queue[2]

C14_BacklogTranslation ==
    LET listens == Cardinality({i \in DOMAIN sock.ops : sock.ops[i] = "listen"})
        b == call.backlog
    IN  /\ (call.fn = "new" /\ b # 0 /\ call.fail # "listen") =>
               (listens = 1 /\ sock.listen = IF b > 0 THEN b ELSE 128)
        /\ (call.fn = "new" /\ b = 0) =>
               /\ listens = 0
               /\ sock.listen = 0
               /\ call.fail # "calloc" => (ret = "handle" /\ lev = "live")
        /\ (call.fn = "new_bind" /\ ret = "handle") =>
               (listens = 1 /\ sock.listen = IF b > 0 THEN b ELSE 128)
        /\ (call.fn = "new_bind" /\ b = 0) =>
               (ret = "NULL" /\ sock = NoSock /\ lev = "none" /\ ~reg)

\* evconnlistener_new was called with backlog -5 and listens with 128
C14_Witness ==
    /\ call.fn = "new"
    /\ call.backlog = -5
    /\ ret = "handle"
    /\ sock.listen = 128

\* C19: a successful evconnlistener_new_bind has applied address reuse once
\* when REUSEABLE is given and never otherwise, close-on-exec exactly when
\* CLOSE_ON_EXEC is given, non-blocking mode and keep-alive once, all of
\* them before bind, bind before listen, and listen before event_add.
C19_OptionsBeforeBindBeforeListen ==
    (call.fn = "new_bind" /\ ret = "handle") =>
        LET ops == sock.ops
            Count(op) == Cardinality({i \in DOMAIN ops : ops[i] = op})
            Pos(op) == CHOOSE i \in DOMAIN ops : ops[i] = op
            Before(a, b) == (Count(a) = 1 /\ Count(b) = 1) => Pos(a) < Pos(b)
            Options == {"nonblocking", "cloexec", "keepalive", "reuseable"}
        IN  /\ Count("reuseable")
                   = IF LEV_OPT_REUSEABLE \in call.flags THEN 1 ELSE 0
            /\ Count("cloexec")
                   = IF LEV_OPT_CLOSE_ON_EXEC \in call.flags THEN 1 ELSE 0
            /\ Count("nonblocking") = 1
            /\ Count("keepalive") = 1
            /\ Count("bind") = IF call.sa THEN 1 ELSE 0
            /\ Count("listen") = 1
            /\ Count("event_add") = 1
            /\ \A o \in Options : Before(o, "bind") /\ Before(o, "listen")
            /\ Before("bind", "listen")
            /\ Before("listen", "event_add")

\* evconnlistener_new_bind succeeded with REUSEABLE, CLOSE_ON_EXEC and an
\* address to bind
C19_Witness ==
    /\ call.fn = "new_bind"
    /\ ret = "handle"
    /\ call.sa
    /\ {LEV_OPT_REUSEABLE, LEV_OPT_CLOSE_ON_EXEC} \subseteq call.flags
    /\ reg

(***************************************************************************)
(* Claims about the completion backend (SpecIocp), continued.              *)
(***************************************************************************)
\* C17: when start_accepting fails after it created a socket (the port
\* association or AcceptEx failed), the failure has been logged, that
\* socket is closed and the slot has neither an accept outstanding nor a
\* socket; and every socket start_accepting created is posted in the slot,
\* is one the callback was invoked for, or is closed.
C17_RearmFailureLeaksNothing ==
    io.phase = "built" =>
        /\ (io.socks # <<>> /\ io.outs[Len(io.outs)] \in {"noassoc", "error"}) =>
               /\ io.socks[Len(io.socks)].state = "closed"
               /\ io.s = INVALID_SOCKET
               /\ ~io.posted
               /\ io.warns > 0
        /\ \A i \in 1..Len(io.socks) :
               \/ io.posted /\ io.s = i
               \/ \E j \in 1..Len(io.calls) : io.calls[j].conn = i
               \/ io.socks[i].state = "closed"

\* C18: accepted_socket_cb is never entered for the slot while an earlier
\* invocation of it has not returned: its nesting depth is at most 1.
C18_HandlerNeverNested == io.maxDepth <= 1

(***************************************************************************)
(* Claim about a callback that frees the listener (SpecCbFree).            *)
(***************************************************************************)
\* C20: after the callback has called evconnlistener_free on the listener,
\* the run of listener_read_cb that invoked it calls accept no more, reads
\* nothing of the released handle and invokes no further callback.
C20_NoUseAfterFreeInDrain ==
    \A i \in DOMAIN run.uaf :
        run.uaf[i] \notin {"accept_closed_fd", "read_freed_lev", "callback"}

====
